---- MODULE Spec2Model ----
(***************************************************************************)
(* bcryptbenchmark (src/main.go): parseFlags validates the configuration,  *)
(* runBenchmark times bcrypt.GenerateFromPassword for every cost level of  *)
(* the range, calculateStats reduces the samples of one cost level, and    *)
(* printReport prints the table and a recommendation per cost level.       *)
(*                                                                         *)
(* time.Duration is an int64 count of nanoseconds and the percentile and   *)
(* standard deviation are computed in float64.  Both are wider than the    *)
(* integers TLC computes with, so a duration is a sequence of limbs        *)
(* (little endian, base 2^15, no leading zero limb, zero is << >>) and a   *)
(* float64 is a pair [m, e] standing for m * 2^e, every float64 operation  *)
(* rounding its exact result to 53 bits, ties to even, as the hardware     *)
(* does (amd64 build, no fused multiply-add).  Only non-negative values    *)
(* occur: the one signed quantity, d - mean in calculateStdDev, is squared *)
(* at once, so its magnitude is what matters.  The arithmetic is written   *)
(* as functions, which take their arguments by value.                      *)
(***************************************************************************)
EXTENDS Integers, Sequences, FiniteSets, TLC

(***************************************************************************)
(* int64 arithmetic on non-negative values (time.Duration, int).           *)
(***************************************************************************)
Base == 32768

LimbBits == 15

Big == Seq(Nat)

Pow2(k) == 2 ^ k

Limb(a, i) == IF i <= Len(a) THEN a[i] ELSE 0

MaxOf(x, y) == IF x >= y THEN x ELSE y

MinOf(x, y) == IF x <= y THEN x ELSE y

Norm[a \in Big] ==
    IF a = << >> THEN << >>
    ELSE IF a[Len(a)] = 0 THEN Norm[SubSeq(a, 1, Len(a) - 1)]
    ELSE a

BigOf[n \in Nat] == IF n = 0 THEN << >> ELSE <<n % Base>> \o BigOf[n \div Base]

AddFrom[a \in Big, b \in Big, i \in Nat, carry \in Nat] ==
    IF i > MaxOf(Len(a), Len(b))
    THEN (IF carry = 0 THEN << >> ELSE <<carry>>)
    ELSE <<(Limb(a, i) + Limb(b, i) + carry) % Base>>
         \o AddFrom[a, b, i + 1, (Limb(a, i) + Limb(b, i) + carry) \div Base]

BigAdd[a \in Big, b \in Big] == AddFrom[a, b, 1, 0]

SubFrom[a \in Big, b \in Big, i \in Nat, borrow \in Nat] ==
    IF i > Len(a) THEN << >>
    ELSE IF Limb(a, i) - Limb(b, i) - borrow < 0
    THEN <<Limb(a, i) - Limb(b, i) - borrow + Base>> \o SubFrom[a, b, i + 1, 1]
    ELSE <<Limb(a, i) - Limb(b, i) - borrow>> \o SubFrom[a, b, i + 1, 0]

\* a - b for a >= b
BigSub[a \in Big, b \in Big] == Norm[SubFrom[a, b, 1, 0]]

CmpFrom[a \in Big, b \in Big, i \in Nat] ==
    IF i = 0 THEN 0
    ELSE IF a[i] < b[i] THEN -1
    ELSE IF a[i] > b[i] THEN 1
    ELSE CmpFrom[a, b, i - 1]

BigCmp[a \in Big, b \in Big] ==
    IF Len(a) < Len(b) THEN -1
    ELSE IF Len(a) > Len(b) THEN 1
    ELSE CmpFrom[a, b, Len(a)]

BigLess(a, b) == BigCmp[a, b] < 0

BigLeq(a, b) == BigCmp[a, b] <= 0

MulSmallFrom[a \in Big, m \in Nat, i \in Nat, carry \in Nat] ==
    IF i > Len(a)
    THEN (IF carry = 0 THEN << >> ELSE <<carry>>)
    ELSE <<(a[i] * m + carry) % Base>>
         \o MulSmallFrom[a, m, i + 1, (a[i] * m + carry) \div Base]

\* a * m for 0 <= m < Base
BigMulSmall[a \in Big, m \in Nat] == IF m = 0 THEN << >> ELSE MulSmallFrom[a, m, 1, 0]

ShiftLimbs[a \in Big, k \in Nat] == IF a = << >> THEN << >> ELSE [i \in 1..k |-> 0] \o a

MulFrom[a \in Big, b \in Big, i \in Nat] ==
    IF i > Len(b) THEN << >>
    ELSE BigAdd[ShiftLimbs[BigMulSmall[a, b[i]], i - 1], MulFrom[a, b, i + 1]]

BigMul[a \in Big, b \in Big] == MulFrom[a, b, 1]

\* the limbs of a from i down divided by d, q the quotient limbs so far
DivSmallFrom[a \in Big, d \in Nat, i \in Nat, rem \in Nat, q \in Big] ==
    IF i = 0 THEN [q |-> Norm[q], r |-> rem]
    ELSE DivSmallFrom[a, d, i - 1, (rem * Base + a[i]) % d,
                      <<(rem * Base + a[i]) \div d>> \o q]

\* quotient and remainder of a / d for 0 < d < Base
BigDivSmall[a \in Big, d \in Nat] == DivSmallFrom[a, d, Len(a), 0, << >>]

BigShl[a \in Big, k \in Nat] ==
    ShiftLimbs[BigMulSmall[a, Pow2(k % LimbBits)], k \div LimbBits]

BigShr[a \in Big, k \in Nat] ==
    IF k \div LimbBits >= Len(a) THEN << >>
    ELSE BigDivSmall[SubSeq(a, (k \div LimbBits) + 1, Len(a)), Pow2(k % LimbBits)].q

SmallBitLen[n \in Nat] == IF n = 0 THEN 0 ELSE 1 + SmallBitLen[n \div 2]

BitLen[a \in Big] ==
    IF a = << >> THEN 0 ELSE LimbBits * (Len(a) - 1) + SmallBitLen[a[Len(a)]]

BigIsOdd(a) == a # << >> /\ a[1] % 2 = 1

\* the value of a as an integer of TLC, for a < 2^30
SmallOf[a \in Big] == IF a = << >> THEN 0 ELSE a[1] + Base * SmallOf[Tail(a)]

(***************************************************************************)
(* float64 arithmetic on non-negative values.                              *)
(***************************************************************************)
MantissaBits == 53

Float == [m : Big, e : Int]

FZero == [m |-> << >>, e |-> 0]

\* q is M without its k low bits: q or q + 1, whichever is nearer to
\* M / 2^k, the even one on a tie
RoundUp[M \in Big, q \in Big, k \in Nat] ==
    IF \/ BigCmp[BigSub[M, BigShl[q, k]], BigShl[<<1>>, k - 1]] > 0
       \/ (BigCmp[BigSub[M, BigShl[q, k]], BigShl[<<1>>, k - 1]] = 0 /\ BigIsOdd(q))
    THEN BigAdd[q, <<1>>]
    ELSE q

\* the float64 nearest to M * 2^e, ties to even
Round[M \in Big, e \in Int] ==
    IF BitLen[M] <= MantissaBits THEN [m |-> M, e |-> e]
    ELSE [m |-> RoundUp[M, BigShr[M, BitLen[M] - MantissaBits], BitLen[M] - MantissaBits],
          e |-> e + BitLen[M] - MantissaBits]

\* float64(x) of an int64 x >= 0
FFromInt[x \in Big] == Round[x, 0]

FMul[x \in Float, y \in Float] ==
    IF x.m = << >> \/ y.m = << >> THEN FZero
    ELSE Round[BigMul[x.m, y.m], x.e + y.e]

FAdd[x \in Float, y \in Float] ==
    IF x.m = << >> THEN y
    ELSE IF y.m = << >> THEN x
    ELSE Round[BigAdd[BigShl[x.m, x.e - MinOf(x.e, y.e)],
                      BigShl[y.m, y.e - MinOf(x.e, y.e)]],
               MinOf(x.e, y.e)]

\* x - y for x >= y
FSub[x \in Float, y \in Float] ==
    IF y.m = << >> THEN x
    ELSE IF x = y THEN FZero
    ELSE Round[BigSub[BigShl[x.m, x.e - MinOf(x.e, y.e)],
                      BigShl[y.m, y.e - MinOf(x.e, y.e)]],
               MinOf(x.e, y.e)]

\* a quotient or root q with the rest below it: q twice, and 1 more if
\* something is left, so that one rounding gives the float64 result
Sticky[q \in Big, exact \in BOOLEAN] ==
    BigAdd[BigMulSmall[q, 2], IF exact THEN << >> ELSE <<1>>]

\* what BigDivSmall returns
DivResult == [q : Big, r : Nat]

StickyOfDiv[qr \in DivResult] == Sticky[qr.q, qr.r = 0]

\* x / float64(d) for an integer 0 < d < Base: the quotient to 57 bits or
\* more, a sticky bit for the remainder, then one rounding
FDivSmall[x \in Float, d \in Nat] ==
    IF x.m = << >> THEN FZero
    ELSE Round[StickyOfDiv[BigDivSmall[BigShl[x.m, 72], d]], x.e - 72 - 1]

\* int64(x), the truncation toward zero
FTrunc[x \in Float] == IF x.e >= 0 THEN BigShl[x.m, x.e] ELSE BigShr[x.m, -x.e]

\* the largest root r + d * 2^b * Base^j, d a bit at b or below, whose square
\* is at most M
SqrtBits[M \in Big, r \in Big, j \in Nat, b \in Int] ==
    IF b < 0 THEN r
    ELSE IF BigLeq(BigMul[BigAdd[r, ShiftLimbs[<<Pow2(b)>>, j]],
                          BigAdd[r, ShiftLimbs[<<Pow2(b)>>, j]]], M)
    THEN SqrtBits[M, BigAdd[r, ShiftLimbs[<<Pow2(b)>>, j]], j, b - 1]
    ELSE SqrtBits[M, r, j, b - 1]

SqrtLimbs[M \in Big, r \in Big, j \in Int] ==
    IF j < 0 THEN r
    ELSE SqrtLimbs[M, SqrtBits[M, r, j, LimbBits - 1], j - 1]

\* floor(sqrt(M)), limb by limb from the top
BigSqrt[M \in Big] == SqrtLimbs[M, << >>, Len(M) \div 2]

StickyOfSqrt[M \in Big, r \in Big] == Sticky[r, BigMul[r, r] = M]

\* the root of m * 2^e with m scaled by 2^s, e - s even
SqrtScaled[m \in Big, e \in Int, s \in Nat] ==
    Round[StickyOfSqrt[BigShl[m, s], BigSqrt[BigShl[m, s]]], ((e - s) \div 2) - 1]

\* math.Sqrt(x): the root of the mantissa scaled to 110 bits or more, a
\* sticky bit for the remainder, then one rounding
FSqrt[x \in Float] ==
    IF x.m = << >> THEN FZero
    ELSE SqrtScaled[x.m, x.e,
                    MaxOf(0, 110 - BitLen[x.m])
                    + ((x.e - MaxOf(0, 110 - BitLen[x.m])) % 2)]

(***************************************************************************)
(* Bounds of the model and constants of the program.                       *)
(***************************************************************************)
\* the most hash invocations of one run: cost levels times iterations
MaxInvocations == 6

\* the longest sample sequence handed to the reducer on its own
MaxLen == 3

\* bcrypt.MinCost and bcrypt.MaxCost
MinCost == 4

MaxCost == 31

NumSpinnerFrames == 10

Millisecond == BigOf[1000000]

Second == BigOf[1000000000]

Ms(n) == BigMulSmall[Millisecond, n]

(***************************************************************************)
(* The statistics reducer.                                                 *)
(***************************************************************************)
Durations == Seq(Big)

Insert[s \in Durations, x \in Big] ==
    IF s = << >> THEN <<x>>
    ELSE IF BigLess(x, Head(s)) THEN <<x>> \o s
    ELSE <<Head(s)>> \o Insert[Tail(s), x]

\* slices.Sort
SortDurations[s \in Durations] ==
    IF s = << >> THEN << >>
    ELSE Insert[SortDurations[SubSeq(s, 1, Len(s) - 1)], s[Len(s)]]

Total[durations \in Durations] ==
    IF durations = << >> THEN << >>
    ELSE BigAdd[Head(durations), Total[Tail(durations)]]

calculateMean(durations) == BigDivSmall[Total[durations], Len(durations)].q

AbsDiff[a \in Big, b \in Big] == IF BigLeq(b, a) THEN BigSub[a, b] ELSE BigSub[b, a]

Square[x \in Float] == FMul[x, x]

SumSquares[durations \in Durations, mean \in Big, i \in Nat, acc \in Float] ==
    IF i > Len(durations) THEN acc
    ELSE SumSquares[durations, mean, i + 1,
                    FAdd[acc, Square[FFromInt[AbsDiff[durations[i], mean]]]]]

calculateStdDev(durations, mean) ==
    IF Len(durations) < 2 THEN << >>
    ELSE FTrunc[FSqrt[FDivSmall[SumSquares[durations, mean, 1, FZero],
                                Len(durations) - 1]]]

\* the last lines of calculatePercentile with the two weights exchanged
InterpolateSwapped[sorted \in Durations, lower \in Nat, weight \in Float] ==
    FTrunc[FAdd[FMul[FFromInt[sorted[lower + 1]], weight],
                FMul[FFromInt[sorted[lower + 2]], FSub[FFromInt[<<1>>], weight]]]]

\* weight := rank - float64(lower) and the interpolated value
Interpolate[sorted \in Durations, lower \in Nat, weight \in Float] ==
    FTrunc[FAdd[FMul[FFromInt[sorted[lower + 1]], FSub[FFromInt[<<1>>], weight]],
                FMul[FFromInt[sorted[lower + 2]], weight]]]

\* lower := int(rank), upper := lower + 1 and what follows
AtRankSwapped[sorted \in Durations, rank \in Float] ==
    IF SmallOf[FTrunc[rank]] + 1 >= Len(sorted) THEN sorted[Len(sorted)]
    ELSE InterpolateSwapped[sorted, SmallOf[FTrunc[rank]],
                            FSub[rank, FFromInt[FTrunc[rank]]]]

AtRank[sorted \in Durations, rank \in Float] ==
    IF SmallOf[FTrunc[rank]] + 1 >= Len(sorted) THEN sorted[Len(sorted)]
    ELSE Interpolate[sorted, SmallOf[FTrunc[rank]],
                     FSub[rank, FFromInt[FTrunc[rank]]]]

\* calculatePercentile with the two weights exchanged
calculatePercentileSwapped(sorted, percentile) ==
    IF Len(sorted) = 0 THEN << >>
    ELSE IF Len(sorted) = 1 THEN sorted[1]
    ELSE AtRankSwapped[sorted, FMul[FDivSmall[FFromInt[BigOf[percentile]], 100],
                                    FFromInt[BigOf[Len(sorted) - 1]]]]

calculatePercentile(sorted, percentile) ==
    IF Len(sorted) = 0 THEN << >>
    ELSE IF Len(sorted) = 1 THEN sorted[1]
    ELSE AtRank[sorted, FMul[FDivSmall[FFromInt[BigOf[percentile]], 100],
                             FFromInt[BigOf[Len(sorted) - 1]]]]

\* the CostResult of sorted, the copy, and durations, the slice handed in
CostResultOf(c, durations, sorted, mean) ==
    [Cost       |-> c,
     Durations  |-> durations,
     Mean       |-> mean,
     StdDev     |-> calculateStdDev(sorted, mean),
     P25        |-> calculatePercentile(sorted, 25),
     P75        |-> calculatePercentile(sorted, 75),
     P95        |-> calculatePercentile(sorted, 95),
     P99        |-> calculatePercentile(sorted, 99),
     Iterations |-> Len(durations)]

\* calculateStats sorting the caller's slice itself, without the copy
calculateStatsInPlace(c, durations) ==
    [mem |-> SortDurations[durations],
     ret |-> CostResultOf(c, SortDurations[durations], SortDurations[durations],
                          calculateMean(SortDurations[durations]))]

\* ret is the CostResult returned; mem is what the caller's slice holds once
\* the call is over (make, copy and slices.Sort work on the copy)
calculateStats(c, durations) ==
    [mem |-> durations,
     ret |-> CostResultOf(c, durations, SortDurations[durations],
                          calculateMean(SortDurations[durations]))]

\* the switch with <= at the first breakpoint
RecommendationInclusive(mean) ==
    IF BigLeq(mean, Ms(100)) THEN "Fast - consider higher cost for sensitive data"
    ELSE IF BigLess(mean, Ms(250)) THEN "Good - balanced security and performance"
    ELSE IF BigLess(mean, Ms(500)) THEN "Acceptable - may impact UX under load"
    ELSE IF BigLess(mean, Second) THEN "Slow - may cause timeouts under load"
    ELSE "Too slow - not recommended for production"

\* the switch of printReport
Recommendation(mean) ==
    IF BigLess(mean, Ms(100)) THEN "Fast - consider higher cost for sensitive data"
    ELSE IF BigLess(mean, Ms(250)) THEN "Good - balanced security and performance"
    ELSE IF BigLess(mean, Ms(500)) THEN "Acceptable - may impact UX under load"
    ELSE IF BigLess(mean, Second) THEN "Slow - may cause timeouts under load"
    ELSE "Too slow - not recommended for production"

(***************************************************************************)
(* The program: main, parseFlags, runBenchmark, printReport.               *)
(***************************************************************************)
VARIABLES
    pc,          \* where the program is
    cfg,         \* Config as the flags give it
    cost,        \* runBenchmark: the outer loop variable
    iter,        \* runBenchmark: the inner loop variable
    durations,   \* runBenchmark: the samples of the cost level in progress
    results,     \* runBenchmark: the summaries appended so far
    spinnerIdx,  \* runBenchmark: index of the spinner frame
    start,       \* runBenchmark: the clock read before the hash
    clock,       \* the monotonic clock, ns
    out,         \* main: the results runBenchmark returned
    report,      \* what printReport has printed
    events,      \* the calls made so far, in order
    input,       \* the reducer on its own: the sequence handed in
    samples,     \* the reducer on its own: the caller's slice
    summary,     \* the reducer on its own: the CostResult returned
    percentile,  \* calculatePercentile on its own: the percentile asked for
    pvalue,      \* calculatePercentile on its own: the value returned
    meanIn,      \* the recommendation on its own: the mean classified
    label        \* the recommendation on its own: the text chosen

progVars == <<cfg, cost, iter, durations, results, spinnerIdx, start, clock,
              out, report, events>>

statVars == <<input, samples, summary, percentile, pvalue, meanIn, label>>

vars == <<pc, progVars, statVars>>

NoSummary == [Cost |-> 0, Durations |-> << >>, Mean |-> << >>, StdDev |-> << >>,
              P25 |-> << >>, P75 |-> << >>, P95 |-> << >>, P99 |-> << >>,
              Iterations |-> 0]

\* the flags: -start just below and at bcrypt.MinCost and around
\* bcrypt.MaxCost, -end from there on, -iterations from 0, as far as the
\* sweep stays within MaxInvocations
StartInputs == {MinCost - 1, MinCost, MaxCost, MaxCost + 1}

EndInputs == ((MinCost - 1)..(MinCost + MaxInvocations - 1)) \cup {MaxCost, MaxCost + 1}

CfgInputs ==
    {c \in [StartCost : StartInputs, EndCost : EndInputs, Iterations : 0..MaxInvocations] :
        (c.EndCost - c.StartCost + 1) * c.Iterations <= MaxInvocations}

\* what one hash can take
ElapsedValues == {Ms(80), Ms(400)}

Event(kind, ok, d) == [ev |-> kind, cost |-> cost, iter |-> iter, ok |-> ok, d |-> d]

ProgIdle ==
    /\ cost = 0
    /\ iter = 0
    /\ durations = << >>
    /\ results = << >>
    /\ spinnerIdx = 0
    /\ start = << >>
    /\ clock = << >>
    /\ out = << >>
    /\ report = << >>
    /\ events = << >>

StatIdle ==
    /\ input = << >>
    /\ samples = << >>
    /\ summary = NoSummary
    /\ percentile = 0
    /\ pvalue = << >>
    /\ meanIn = << >>
    /\ label = ""

Init ==
    /\ pc = "parseFlags"
    /\ cfg \in CfgInputs
    /\ ProgIdle
    /\ StatIdle

\* parseFlags without the check of -end against bcrypt.MaxCost
parseFlagsNoEndCheck ==
    /\ pc = "parseFlags"
    /\ IF \/ cfg.StartCost < MinCost
          \/ cfg.StartCost > cfg.EndCost
          \/ cfg.Iterations < 1
       THEN /\ pc' = "exit1"
            /\ UNCHANGED <<cost, results, spinnerIdx>>
       ELSE /\ pc' = "costLoop"
            /\ cost' = cfg.StartCost
            /\ results' = << >>
            /\ spinnerIdx' = 0
    /\ UNCHANGED <<cfg, iter, durations, start, clock, out, report, events, statVars>>

\* parseFlags, and in main the call of runBenchmark up to its outer loop
parseFlags ==
    /\ pc = "parseFlags"
    /\ IF \/ cfg.StartCost < MinCost
          \/ cfg.EndCost > MaxCost
          \/ cfg.StartCost > cfg.EndCost
          \/ cfg.Iterations < 1
       THEN /\ pc' = "exit1"
            /\ UNCHANGED <<cost, results, spinnerIdx>>
       ELSE /\ pc' = "costLoop"
            /\ cost' = cfg.StartCost
            /\ results' = << >>
            /\ spinnerIdx' = 0
    /\ UNCHANGED <<cfg, iter, durations, start, clock, out, report, events, statVars>>

\* the outer loop with cost < cfg.EndCost
CostLoopExclusive ==
    /\ pc = "costLoop"
    /\ IF cost < cfg.EndCost
       THEN /\ durations' = << >>
            /\ iter' = 1
            /\ pc' = "iterLoop"
            /\ UNCHANGED out
       ELSE /\ out' = results
            /\ pc' = "printReport"
            /\ UNCHANGED <<durations, iter>>
    /\ UNCHANGED <<cfg, cost, results, spinnerIdx, start, clock, report, events, statVars>>

\* the outer loop with durations made once, before the loop
CostLoopKeepsDurations ==
    /\ pc = "costLoop"
    /\ IF cost <= cfg.EndCost
       THEN /\ iter' = 1
            /\ pc' = "iterLoop"
            /\ UNCHANGED <<out, durations>>
       ELSE /\ out' = results
            /\ pc' = "printReport"
            /\ UNCHANGED <<durations, iter>>
    /\ UNCHANGED <<cfg, cost, results, spinnerIdx, start, clock, report, events, statVars>>

\* for cost := cfg.StartCost; cost <= cfg.EndCost; cost++ { durations := make(...)
\* and, the loop over, return results
CostLoop ==
    /\ pc = "costLoop"
    /\ IF cost <= cfg.EndCost
       THEN /\ durations' = << >>
            /\ iter' = 1
            /\ pc' = "iterLoop"
            /\ UNCHANGED out
       ELSE /\ out' = results
            /\ pc' = "printReport"
            /\ UNCHANGED <<durations, iter>>
    /\ UNCHANGED <<cfg, cost, results, spinnerIdx, start, clock, report, events, statVars>>

\* the inner loop reading the clock before it prints the progress line
IterLoopClockFirst ==
    /\ pc = "iterLoop"
    /\ IF iter <= cfg.Iterations
       THEN /\ spinnerIdx' = (spinnerIdx + 1) % NumSpinnerFrames
            /\ start' = clock
            /\ events' = events \o <<Event("start", TRUE, << >>),
                                     Event("progress", TRUE, << >>)>>
            /\ pc' = "hash"
            /\ UNCHANGED <<cost, durations, results>>
       ELSE \E r \in {calculateStats(cost, durations)} :
                /\ results' = Append(results, r.ret)
                /\ durations' = r.mem
                /\ events' = Append(events, Event("reduce", TRUE, << >>))
                /\ cost' = cost + 1
                /\ pc' = "costLoop"
                /\ UNCHANGED <<spinnerIdx, start>>
    /\ UNCHANGED <<cfg, iter, clock, out, report, statVars>>

\* for iter := 1; iter <= cfg.Iterations; iter++ { spinner, fmt.Printf
\* and, the loop over, results = append(results, calculateStats(cost, durations))
IterLoop ==
    /\ pc = "iterLoop"
    /\ IF iter <= cfg.Iterations
       THEN /\ spinnerIdx' = (spinnerIdx + 1) % NumSpinnerFrames
            /\ events' = Append(events, Event("progress", TRUE, << >>))
            /\ pc' = "now"
            /\ UNCHANGED <<cost, durations, results, start>>
       ELSE \E r \in {calculateStats(cost, durations)} :
                /\ results' = Append(results, r.ret)
                /\ durations' = r.mem
                /\ events' = Append(events, Event("reduce", TRUE, << >>))
                /\ cost' = cost + 1
                /\ pc' = "costLoop"
                /\ UNCHANGED <<spinnerIdx, start>>
    /\ UNCHANGED <<cfg, iter, clock, out, report, statVars>>

\* start := time.Now()
Now ==
    /\ pc = "now"
    /\ start' = clock
    /\ events' = Append(events, Event("start", TRUE, << >>))
    /\ pc' = "hash"
    /\ UNCHANGED <<cfg, cost, iter, durations, results, spinnerIdx, clock, out,
                   report, statVars>>

\* the hash with its error answered by return results
HashReturnsResults ==
    /\ pc = "hash"
    /\ \E d \in ElapsedValues, ok \in BOOLEAN :
          /\ clock' = BigAdd[clock, d]
          /\ events' = Append(events, Event("hash", ok, d))
          /\ pc' = IF ok THEN "since" ELSE "printReport"
          /\ out' = IF ok THEN out ELSE results
    /\ UNCHANGED <<cfg, cost, iter, durations, results, spinnerIdx, start,
                   report, statVars>>

\* the hash with its error ignored
HashIgnoresError ==
    /\ pc = "hash"
    /\ \E d \in ElapsedValues, ok \in BOOLEAN :
          /\ clock' = BigAdd[clock, d]
          /\ events' = Append(events, Event("hash", ok, d))
          /\ pc' = "since"
    /\ UNCHANGED <<cfg, cost, iter, durations, results, spinnerIdx, start, out,
                   report, statVars>>

\* _, err := bcrypt.GenerateFromPassword(password, cost); log.Fatalf on err
Hash ==
    /\ pc = "hash"
    /\ \E d \in ElapsedValues, ok \in BOOLEAN :
          /\ clock' = BigAdd[clock, d]
          /\ events' = Append(events, Event("hash", ok, d))
          /\ pc' = IF ok THEN "since" ELSE "exit1"
    /\ UNCHANGED <<cfg, cost, iter, durations, results, spinnerIdx, start, out,
                   report, statVars>>

\* durations = append(durations, time.Since(start)); iter++
Since ==
    /\ pc = "since"
    /\ durations' = Append(durations, BigSub[clock, start])
    /\ events' = Append(events, Event("since", TRUE, << >>))
    /\ iter' = iter + 1
    /\ pc' = "iterLoop"
    /\ UNCHANGED <<cfg, cost, results, spinnerIdx, start, clock, out, report, statVars>>

\* printReport: a table row and an analysis line per result
printReport ==
    /\ pc = "printReport"
    /\ report' = [i \in 1..Len(out) |->
                    [Cost           |-> out[i].Cost,
                     Iterations     |-> out[i].Iterations,
                     recommendation |-> Recommendation(out[i].Mean)]]
    /\ pc' = "done"
    /\ UNCHANGED <<cfg, cost, iter, durations, results, spinnerIdx, start, clock,
                   out, events, statVars>>

Next ==
    \/ parseFlags
    \/ CostLoop
    \/ IterLoop
    \/ Now
    \/ Hash
    \/ Since
    \/ printReport

Spec == Init /\ [][Next]_vars

(***************************************************************************)
(* The reducer, calculatePercentile and the recommendation on their own,   *)
(* over sample sequences in any order.                                     *)
(***************************************************************************)
\* 2^52 ns < LongRun < 2^53 ns, some 98 days
LongRun == BigAdd[BigMul[BigOf[84806543], BigOf[100000000]], BigOf[59993883]]

SampleValues == {BigOf[0], BigOf[3], BigOf[23], LongRun}

SampleSeqs == UNION {[1..n -> SampleValues] : n \in 1..MaxLen}

Percentiles == {0, 25, 50, 75, 95, 99, 100}

MeanProbes ==
    {BigOf[0], LongRun, Second, BigAdd[Second, <<1>>]}
    \cup {Ms(n) : n \in {100, 250, 500}}
    \cup {BigSub[Ms(n), <<1>>] : n \in {100, 250, 500, 1000}}
    \cup {BigAdd[Ms(n), <<1>>] : n \in {100, 250, 500}}

IsSorted(s) == \A i \in 1..(Len(s) - 1) : BigLeq(s[i], s[i + 1])

StatsInit ==
    /\ pc = "input"
    /\ cfg = [StartCost |-> MinCost, EndCost |-> MinCost, Iterations |-> 1]
    /\ ProgIdle
    /\ input \in SampleSeqs
    /\ samples = input
    /\ summary = NoSummary
    /\ percentile = 0
    /\ pvalue = << >>
    /\ meanIn = << >>
    /\ label = ""

Reduce ==
    /\ pc = "input"
    /\ \E c \in {MinCost, MaxCost} :
          \E r \in {calculateStats(c, samples)} :
              /\ summary' = r.ret
              /\ samples' = r.mem
    /\ pc' = "reduced"
    /\ UNCHANGED <<progVars, input, percentile, pvalue, meanIn, label>>

Percentile ==
    /\ pc = "input"
    /\ IsSorted(samples)
    /\ \E p \in Percentiles :
          /\ percentile' = p
          /\ pvalue' = calculatePercentile(samples, p)
    /\ pc' = "percentile"
    /\ UNCHANGED <<progVars, input, samples, summary, meanIn, label>>

Recommend ==
    /\ pc = "input"
    /\ \E m \in MeanProbes :
          /\ meanIn' = m
          /\ label' = Recommendation(m)
    /\ pc' = "recommended"
    /\ UNCHANGED <<progVars, input, samples, summary, percentile, pvalue>>

StatsNext ==
    \/ Reduce
    \/ Percentile
    \/ Recommend

StatsSpec == StatsInit /\ [][StatsNext]_vars

(***************************************************************************)
(* Properties.                                                             *)
(***************************************************************************)
Failed(e) == e.ev = "hash" /\ ~e.ok

Succeeded(e) == e.ev = "hash" /\ e.ok

HashFailed == \E i \in 1..Len(events) : Failed(events[i])

\* the elapsed times of the successful invocations at cost level c, in
\* invocation order
ElapsedAt(c) ==
    LET hs == SelectSeq(events, LAMBDA e : Succeeded(e) /\ e.cost = c)
    IN  [i \in 1..Len(hs) |-> hs[i].d]

ValidConfig ==
    /\ MinCost <= cfg.StartCost
    /\ cfg.StartCost <= cfg.EndCost
    /\ cfg.EndCost <= MaxCost
    /\ cfg.Iterations >= 1

\* C1 as stated: when the hash fails during cost level c, no summary exists
\* for level c or above, and the summary of every level below c has been
\* returned to main or reported.
C1_CompletedSummariesReported ==
    \A i \in 1..Len(events) : Failed(events[i]) =>
        /\ \A j \in 1..Len(results) : results[j].Cost < events[i].cost
        /\ \A k \in cfg.StartCost..(events[i].cost - 1) :
              \/ \E j \in 1..Len(out) : out[j].Cost = k
              \/ \E j \in 1..Len(report) : report[j].Cost = k

\* C1 amended: when the hash fails during cost level c, no summary exists for
\* level c or above and the program exits at once; the summaries of the levels
\* below c, one each, stay in runBenchmark and are neither returned to main
\* nor reported.
C1_NothingReportedAfterFailure ==
    \A i \in 1..Len(events) : Failed(events[i]) =>
        /\ pc = "exit1"
        /\ Len(results) = events[i].cost - cfg.StartCost
        /\ \A j \in 1..Len(results) : results[j].Cost = cfg.StartCost + j - 1
        /\ out = << >>
        /\ report = << >>

\* the hash has failed on the 2nd iteration of the 3rd cost level
C1_Witness ==
    /\ pc = "exit1"
    /\ HashFailed
    /\ cost = cfg.StartCost + 2
    /\ iter = 2
    /\ Len(results) = 2

\* C2: a sweep that runs to its end returns end - start + 1 summaries, the
\* i-th (from 0) of cost start + i.
C2_OneSummaryPerCostLevel ==
    pc \in {"printReport", "done"} =>
        /\ ~HashFailed
        /\ Len(out) = cfg.EndCost - cfg.StartCost + 1
        /\ \A i \in 1..Len(out) : out[i].Cost = cfg.StartCost + i - 1

C2_Witness ==
    /\ pc = "done"
    /\ cfg.EndCost = cfg.StartCost + 2
    /\ Len(out) = 3

\* C3: a failed hash is the last call the sweep makes: no hash, progress line
\* or reduction follows it, no reduction was made for its cost level, and the
\* program is at its fatal exit.
C3_AbortOnFirstError ==
    \A i \in 1..Len(events) : Failed(events[i]) =>
        /\ i = Len(events)
        /\ pc = "exit1"
        /\ \A j \in 1..Len(events) :
              events[j].ev = "reduce" => events[j].cost < events[i].cost
        /\ \A j \in 1..Len(results) : results[j].Cost < events[i].cost

\* the hash has failed with iterations and cost levels still to run
C3_Witness ==
    /\ pc = "exit1"
    /\ HashFailed
    /\ iter < cfg.Iterations
    /\ cost < cfg.EndCost
    /\ durations # << >>

\* C4: every summary counts exactly the configured iterations, and its
\* samples are the elapsed times of the invocations at its cost level, one
\* each, in invocation order.
C4_SampleCount ==
    \A i \in 1..Len(results) :
        /\ results[i].Iterations = cfg.Iterations
        /\ Len(results[i].Durations) = cfg.Iterations
        /\ results[i].Durations = ElapsedAt(results[i].Cost)

C4_Witness ==
    /\ Len(results) >= 2
    /\ cfg.Iterations >= 2
    /\ results[2].Durations[1] # results[2].Durations[2]

\* C5: every hash is made under a valid configuration, at a cost within
\* [start, end] and [4, 31]; an invalid configuration ends the program at
\* parseFlags, before any hash or reduction.
C5_HashOnlyWhenValid ==
    /\ \A i \in 1..Len(events) :
          events[i].ev = "hash" =>
              /\ ValidConfig
              /\ cfg.StartCost <= events[i].cost
              /\ events[i].cost <= cfg.EndCost
    /\ (~ValidConfig /\ pc # "parseFlags") =>
          /\ pc = "exit1"
          /\ events = << >>
          /\ results = << >>

C5_Witness ==
    /\ pc = "exit1"
    /\ cfg.StartCost >= MinCost
    /\ cfg.EndCost = MaxCost + 1
    /\ cfg.Iterations >= 1
    /\ events = << >>

\* C10: in every iteration the progress line comes first, then the clock
\* read, the hash and the elapsed-time read; no progress line falls between a
\* clock read and its elapsed-time read, and at most one timed region is open.
C10_TimedRegion ==
    \A i \in 1..Len(events) :
        LET e    == events[i]
            same == i > 1 /\ events[i - 1].cost = e.cost /\ events[i - 1].iter = e.iter
            open == Cardinality({j \in 1..i : events[j].ev = "start"})
                    - Cardinality({j \in 1..i : events[j].ev = "since"})
        IN  /\ e.ev = "progress" => (i = 1 \/ events[i - 1].ev \in {"since", "reduce"})
            /\ e.ev = "start" => (same /\ events[i - 1].ev = "progress")
            /\ e.ev = "hash" => (same /\ events[i - 1].ev = "start")
            /\ e.ev = "since" => (same /\ Succeeded(events[i - 1]))
            /\ open \in {0, 1}

\* two iterations of one cost level are over
C10_Witness ==
    \E i \in 1..Len(events) : events[i].ev = "since" /\ events[i].iter = 2

\* C6: the recommendation is the band of the mean: below 100ms fast, from
\* 100ms and below 250ms balanced, from 250ms and below 500ms acceptable,
\* from 500ms and below 1s slow, from 1s too slow.
C6_RecommendationBands ==
    pc = "recommended" =>
        /\ BigLess(meanIn, Ms(100))
              <=> label = "Fast - consider higher cost for sensitive data"
        /\ (BigLeq(Ms(100), meanIn) /\ BigLess(meanIn, Ms(250)))
              <=> label = "Good - balanced security and performance"
        /\ (BigLeq(Ms(250), meanIn) /\ BigLess(meanIn, Ms(500)))
              <=> label = "Acceptable - may impact UX under load"
        /\ (BigLeq(Ms(500), meanIn) /\ BigLess(meanIn, Second))
              <=> label = "Slow - may cause timeouts under load"
        /\ BigLeq(Second, meanIn)
              <=> label = "Too slow - not recommended for production"

\* a mean on a breakpoint falls in the upper band
C6_Witness ==
    /\ pc = "recommended"
    /\ meanIn = Ms(250)
    /\ label = "Acceptable - may impact UX under load"

\* C7: the percentiles of a summary are ordered, p25 <= p75 <= p95 <= p99.
C7_PercentilesOrdered ==
    pc = "reduced" =>
        /\ BigLeq(summary.P25, summary.P75)
        /\ BigLeq(summary.P75, summary.P95)
        /\ BigLeq(summary.P95, summary.P99)

\* the reference rule for sorted s and percentile p, in hundredths of a
\* nanosecond, and whether it is the clamp to the maximum
RefClamped(s, p) == ((p * (Len(s) - 1)) \div 100) + 1 >= Len(s)

Ref100(s, p) ==
    LET n  == Len(s)
        lo == (p * (n - 1)) \div 100
        wn == (p * (n - 1)) % 100
    IN  IF n = 1 THEN BigMulSmall[s[1], 100]
        ELSE IF RefClamped(s, p) THEN BigMulSmall[s[n], 100]
        ELSE BigAdd[BigMulSmall[s[lo + 1], 100 - wn], BigMulSmall[s[lo + 2], wn]]

ShortRuns(s) == \A i \in 1..Len(s) : BitLen[s[i]] <= 32

C9_InputUnchanged ==
    pc = "reduced" =>
        /\ samples = input
        /\ summary.Durations = input

C9_Witness ==
    /\ pc = "reduced"
    /\ ~IsSorted(input)
    /\ summary.Durations = input
    /\ summary.Iterations = MaxLen

====
